---- MODULE Spec2Model ----
(***************************************************************************)
(* A model of three pieces of the ockam repository:                        *)
(*   - ockam_api/src/nodes.rs: the node-management Server worker and its   *)
(*     Client (specifications Spec and SpecFault);                         *)
(*   - ockam_transport_tcp/src/portal/outlet_listener.rs: the TCP portal   *)
(*     outlet listener (specification SpecOutlet);                         *)
(*   - examples/04-routing-over-transport-responder.rs: the responder node *)
(*     with its echoer worker (specification SpecResponder).               *)
(* The three pieces do not share state, so each has a specification of its *)
(* own that leaves the variables of the other two at their initial value.  *)
(***************************************************************************)
EXTENDS Integers, Sequences, FiniteSets, TLC

\* ------------------------------------------------------------------ bounds

\* Requests sent to the Server over a behaviour.
MaxReqs == 3

\* Messages forwarded to the outlet listener over a behaviour.
MaxPortalMsgs == 4

\* Messages forwarded to the echoer over a behaviour.
MaxEchoMsgs == 4

\* ------------------------------------------------------------ value spaces

\* The strings rand_id may return (in the code: 16 alphanumeric characters).
Ids == {"i1", "i2"}

\* Node names a CreateNode body may carry.
Names == {"n1", "n2"}

\* The Clients, and the addresses Address::random_local has given them.
Clients == {1, 2}
ClientAddrs == {"a1", "a2"}

\* ---------------------------------------------------------------- requests

NoBody == [kind |-> "none", name |-> ""]
BadBody == [kind |-> "garbage", name |-> ""]
CreateNode(n) == [kind |-> "create", name |-> n]

\* A path is the sequence of its tokens: "/" and the pieces between slashes.
RootPath == <<"/">>
IdPath(id) == <<"/", id>>
LongPath == <<"/", "i1", "/", "i2">>

\* Bytes that do not decode as a request header.
Garbage == [hdr |-> FALSE, id |-> 0, method |-> "Unknown", path |-> <<>>, body |-> NoBody]

Req(id, m, p, b) == [hdr |-> TRUE, id |-> id, method |-> m, path |-> p, body |-> b]

\* Request::has_body: the header's flag, set by RequestBuilder::body.
HasBody(req) == req.body.kind # "none"

\* What a worker other than a Client may send to the Server's address, with
\* request id i: bytes that are no request, a POST without a body, with a body
\* that is no CreateNode and to a path other than "/", a GET and a DELETE of a
\* path of two segments, another known method and an unknown one.
RawRequests(i) ==
    {Garbage}
    \cup {Req(i, "Post", RootPath, b) : b \in {NoBody, BadBody}}
    \cup {Req(i, "Post", IdPath("i1"), CreateNode("n1"))}
    \cup {Req(i, m, LongPath, NoBody) : m \in {"Get", "Delete"}}
    \cup {Req(i, m, RootPath, NoBody) : m \in {"Put", "Unknown"}}

\* --------------------------------------------------------------- responses

NoNode == [id |-> "", name |-> ""]
NoErr == [path |-> <<>>, method |-> "", message |-> ""]

EmptyBody == [kind |-> "none", node |-> NoNode, nodes |-> {}, err |-> NoErr]
NodeBody(ni) == [kind |-> "node", node |-> ni, nodes |-> {}, err |-> NoErr]
ListBody(s) == [kind |-> "list", node |-> NoNode, nodes |-> s, err |-> NoErr]
ErrBody(p, m, msg) ==
    [kind |-> "error", node |-> NoNode, nodes |-> {},
     err |-> [path |-> p, method |-> m, message |-> msg]]

\* A response that carries the id of the first request whatever it answers.
ResponseToFirst(re, status, body) == [re |-> 1, status |-> status, body |-> body]

Response(re, status, body) == [re |-> re, status |-> status, body |-> body]

NoResponse == Response(0, "none", EmptyBody)

\* ------------------------------------------------------------------- state

VARIABLES
    store,      \* Server.0: the HashMap from node id to NodeInfo
    mailbox,    \* the Server worker's mailbox: Routed<Cbor> messages, FIFO
    active,     \* handle_message invocations that have begun and not returned
    arrivals,   \* messages ever put into the Server's mailbox
    done,       \* handle_message invocations that have returned
    promise,    \* per id: what the answers given so far say about GET /id
    live,       \* the nodes of POSTs answered Ok, less those of DELETEs answered Ok
    sstore,     \* the node store of a serial execution of the returned calls
    faults,     \* whether encoding a response may fail in this behaviour
    clientAddr, \* Client.ctx: each Client's detached address
    pending,    \* the request a Client is waiting on in send_and_receive
    inbox,      \* messages delivered to each Client's detached context
    result,     \* what the Client's last call returned
    lastCall    \* the request and the response of that call, for the claims

VARIABLES
    lPeer,      \* TcpOutletListenWorker.peer: the configured peer string
    lAccess,    \* TcpOutletListenWorker.access_control: the callers it allows
    lMailbox,   \* the outlet listener's mailbox: Routed<PortalMessage>, FIFO
    sessions,   \* the session outlet workers started so far
    lResult,    \* what the listener's last handle_message returned
    lHandled,   \* handle_message invocations of the listener
    lResolves,  \* calls of TcpRouterHandle::resolve_peer
    lProtoErr,  \* whether an invocation has returned Err(Protocol)
    lPings,     \* the Pings given to handle_message: their number and sender
    lDenied,    \* callers whose message the router has refused to deliver
    lSent       \* messages forwarded towards the listener

VARIABLES
    mainPc,     \* where main of the responder node stands
    workers,    \* the workers started on the node, with their mailboxes' policies
    echoMailbox,\* the echoer's mailbox
    fwdLog,     \* each message forwarded to "echoer": what its forwarder observed
    handled,    \* the messages that the Echoer's handler was given
    replied     \* the messages the Echoer's reply to which was sent

nodeVars == <<store, mailbox, active, arrivals, done, promise, live, sstore,
              faults, clientAddr, pending, inbox, result, lastCall>>

outletVars == <<lPeer, lAccess, lMailbox, sessions, lResult, lHandled, lResolves,
                lProtoErr, lPings, lDenied, lSent>>

responderVars == <<mainPc, workers, echoMailbox, fwdLog, handled, replied>>

vars == <<nodeVars, outletVars, responderVars>>

\* ------------------------------------------------------------- path parsing

RECURSIVE TrimSlashes(_)
\* str::trim_start_matches('/')
TrimSlashes(p) ==
    IF p # <<>> /\ Head(p) = "/" THEN TrimSlashes(Tail(p)) ELSE p

RECURSIVE SlashAt(_, _)
\* The index of the first "/" of p at or after k, or 0.
SlashAt(p, k) ==
    IF k > Len(p) THEN 0 ELSE IF p[k] = "/" THEN k ELSE SlashAt(p, k + 1)

\* Request::path_segments::<2>: the path without its leading slashes, split
\* at the first "/" into at most two segments (splitn(2, '/')).
PathSegments2(p) ==
    LET t == TrimSlashes(p)
        k == SlashAt(t, 1)
    IN  IF k = 0 THEN <<t>>
        ELSE <<SubSeq(t, 1, k - 1), SubSeq(t, k + 1, Len(t))>>

\* The map key a one-token segment spells; any other segment spells no key
\* that rand_id returns.
IsKey(seg, st) == Len(seg) = 1 /\ seg[1] \in DOMAIN st

\* ------------------------------------------------------------------ Server

NodeInfo(id, name) == [id |-> id, name |-> name]

\* HashMap::insert
Insert(st, k, v) == [x \in DOMAIN st \cup {k} |-> IF x = k THEN v ELSE st[x]]

\* HashMap::remove
Remove(st, k) == [x \in DOMAIN st \ {k} |-> st[x]]

Ok(res, st) == [ok |-> TRUE, res |-> res, store |-> st]
Err(st) == [ok |-> FALSE, res |-> NoResponse, store |-> st]

\* Response::to_cbor()?  followed by the rest of the arm: an encoding failure
\* returns the error with the store as the arm has left it so far.
Encoded(encOk, res, stBefore, stAfter) ==
    IF encOk THEN Ok(res, stAfter) ELSE Err(stBefore)

\* The Get arm of on_request.
OnGet(st, req, encOk) ==
    LET segs == PathSegments2(req.path)
    IN  IF Len(segs) = 1 /\ segs[1] = <<>>
        THEN Encoded(encOk,
                 Response(req.id, "Ok", ListBody({st[k] : k \in DOMAIN st})), st, st)
        ELSE IF Len(segs) = 1
        THEN IF IsKey(segs[1], st)
             THEN Encoded(encOk, Response(req.id, "Ok", NodeBody(st[segs[1][1]])), st, st)
             ELSE Encoded(encOk, Response(req.id, "NotFound", EmptyBody), st, st)
        ELSE Encoded(encOk,
                 Response(req.id, "BadRequest", ErrBody(req.path, "Post", "unknown path")),
                 st, st)

\* The Post arms with the node inserted under its name instead of its id.
OnPostKeyedByName(st, req, rid, encOk) ==
    IF HasBody(req)
    THEN IF req.body.kind # "create"
         THEN Err(st)
         ELSE LET ni == NodeInfo(rid, req.body.name)
              IN  Encoded(encOk, Response(req.id, "Ok", NodeBody(ni)),
                          st, Insert(st, ni.name, ni))
    ELSE Encoded(encOk,
             Response(req.id, "BadRequest",
                      ErrBody(req.path, "Post", "missing request body")), st, st)

\* The Post arms of on_request: the body is decoded, the response is encoded,
\* and only then is the node inserted.
OnPost(st, req, rid, encOk) ==
    IF HasBody(req)
    THEN IF req.body.kind # "create"
         THEN Err(st)
         ELSE LET ni == NodeInfo(rid, req.body.name)
              IN  Encoded(encOk, Response(req.id, "Ok", NodeBody(ni)),
                          st, Insert(st, ni.id, ni))
    ELSE Encoded(encOk,
             Response(req.id, "BadRequest",
                      ErrBody(req.path, "Post", "missing request body")), st, st)

\* OnDelete without the test of what remove returned: every DELETE of a path
\* of one segment is answered Ok.
OnDeleteAlwaysOk(st, req, encOk) ==
    LET segs == PathSegments2(req.path)
    IN  IF Len(segs) = 1
        THEN LET removed == IF IsKey(segs[1], st) THEN Remove(st, segs[1][1]) ELSE st
             IN  Encoded(encOk, Response(req.id, "Ok", EmptyBody), removed, removed)
        ELSE Encoded(encOk,
                 Response(req.id, "BadRequest", ErrBody(req.path, "Post", "unknown path")),
                 st, st)

\* The Delete arm of on_request: the entry is removed before the response is
\* encoded.
OnDelete(st, req, encOk) ==
    LET segs == PathSegments2(req.path)
    IN  IF Len(segs) = 1
        THEN IF IsKey(segs[1], st)
             THEN LET removed == Remove(st, segs[1][1])
                  IN  Encoded(encOk, Response(req.id, "Ok", EmptyBody), removed, removed)
             ELSE Encoded(encOk, Response(req.id, "NotFound", EmptyBody), st, st)
        ELSE Encoded(encOk,
                 Response(req.id, "BadRequest", ErrBody(req.path, "Post", "unknown path")),
                 st, st)

\* Server::on_request on store st, with rid the string rand_id returns when
\* it is called and encOk whether to_cbor succeeds.
OnRequest(st, req, rid, encOk) ==
    IF ~req.hdr THEN Err(st)
    ELSE IF req.method = "Get" THEN OnGet(st, req, encOk)
    ELSE IF req.method = "Post" THEN OnPost(st, req, rid, encOk)
    ELSE IF req.method = "Delete" THEN OnDelete(st, req, encOk)
    ELSE IF req.method # "Unknown"
    THEN Encoded(encOk,
             Response(req.id, "MethodNotAllowed", ErrBody(req.path, req.method, "")),
             st, st)
    ELSE Encoded(encOk,
             Response(req.id, "NotImplemented", ErrBody(req.path, "", "unknown method")),
             st, st)

\* A relay that hands over the next message while an invocation is suspended.
RelayAlways == TRUE

\* The worker relay hands the next message to handle_message only when the
\* previous invocation has returned (one in-flight invocation per worker).
RelayIdle == active = {}

\* The outcomes of encoding a response into a Vec: it succeeds, unless the
\* behaviour is one in which encoding failures are injected.
EncOutcomes == IF faults THEN BOOLEAN ELSE {TRUE}

\* What the answers so far promise for GET /id: the name of the first POST
\* answered Ok with that id since the last DELETE answered Ok, "deleted"
\* after a DELETE answered Ok, "none" before any.
Promised(pr, req, r) ==
    IF ~r.ok \/ r.res.status # "Ok" THEN pr
    ELSE IF req.method = "Post"
    THEN LET id == r.res.body.node.id
         IN  IF pr[id] \in Names THEN pr ELSE [pr EXCEPT ![id] = req.body.name]
    ELSE IF req.method = "Delete"
    THEN [pr EXCEPT ![PathSegments2(req.path)[1][1]] = "deleted"]
    ELSE pr

\* The nodes that the answers so far have announced and not withdrawn: a POST
\* answered Ok adds the node of its response, a DELETE answered Ok takes away
\* the nodes of the id it names.
Living(lv, req, r) ==
    IF ~r.ok \/ r.res.status # "Ok" THEN lv
    ELSE IF req.method = "Post" THEN lv \cup {r.res.body.node}
    ELSE IF req.method = "Delete"
    THEN {n \in lv : n.id # PathSegments2(req.path)[1][1]}
    ELSE lv

\* Worker::handle_message up to its suspension point: on_request runs on the
\* head of the mailbox; the invocation then holds the encoded response (or
\* the error) until it returns.
ServerBegin ==
    /\ mailbox # <<>>
    /\ RelayIdle
    /\ \E rid \in Ids, encOk \in EncOutcomes :
        LET m == Head(mailbox)
            r == OnRequest(store, m.body, rid, encOk)
        IN  /\ store' = r.store
            /\ active' = active \cup
                 {[seq |-> m.seq, src |-> m.src, to |-> m.return_route,
                   req |-> m.body, rid |-> rid, enc |-> encOk,
                   ok |-> r.ok, cbor |-> r.res]}
            /\ promise' = Promised(promise, m.body, r)
            /\ live' = Living(live, m.body, r)
    /\ mailbox' = Tail(mailbox)
    /\ UNCHANGED <<arrivals, done, sstore, faults, clientAddr, pending, inbox, result,
                   lastCall>>
    /\ UNCHANGED <<outletVars, responderVars>>

\* A Server that answers on the route of the first Client it has heard of.
ReplyToFirst(a) == "a1"

\* The address ctx.send delivers the response to: the request's return route.
ReplyTo(a) == a.to

\* The rest of handle_message: an error of on_request is returned (the `?`),
\* otherwise ctx.send(msg.return_route(), cbor) delivers the response.
ServerReturn ==
    \E a \in active :
        /\ active' = active \ {a}
        /\ done' = done + 1
        /\ sstore' = OnRequest(sstore, a.req, a.rid, a.enc).store
        /\ inbox' = IF a.ok /\ ReplyTo(a) \in ClientAddrs
                    THEN [inbox EXCEPT ![ReplyTo(a)] =
                            Append(@, [src |-> a.src, cbor |-> a.cbor])]
                    ELSE inbox
        /\ UNCHANGED <<store, mailbox, arrivals, promise, live, faults, clientAddr,
                       pending, result, lastCall>>
        /\ UNCHANGED <<outletVars, responderVars>>

\* ------------------------------------------------------------------ Client

NoResult == [tag |-> "none", body |-> EmptyBody]

\* Id::fresh: the id of the next request.
FreshId == arrivals + 1

\* Client::request: send_and_receive from the Client's detached address; the
\* message reaches the Server's mailbox with that address as return route.
Request(c, req) ==
    /\ pending[c] = <<>>
    /\ arrivals < MaxReqs
    /\ arrivals' = arrivals + 1
    /\ mailbox' = Append(mailbox,
          [seq |-> arrivals + 1, src |-> c, return_route |-> clientAddr[c],
           body |-> req])
    /\ pending' = [pending EXCEPT ![c] = <<req>>]
    /\ result' = [result EXCEPT ![c] = NoResult]
    /\ lastCall' = [lastCall EXCEPT ![c] = <<>>]
    /\ UNCHANGED <<store, active, done, promise, live, sstore, faults, clientAddr,
                   inbox>>
    /\ UNCHANGED <<outletVars, responderVars>>

\* Client::create_node
CreateNodeCall(c) ==
    \E n \in Names : Request(c, Req(FreshId, "Post", RootPath, CreateNode(n)))

\* Client::get
GetCall(c) ==
    \E id \in Ids : Request(c, Req(FreshId, "Get", IdPath(id), NoBody))

\* Client::list
ListCall(c) ==
    Request(c, Req(FreshId, "Get", RootPath, NoBody))

\* Client::delete
DeleteCall(c) ==
    \E id \in Ids : Request(c, Req(FreshId, "Delete", IdPath(id), NoBody))

\* Another worker sends bytes of its own making to the Server's address; its
\* return route is its own address, which is no Client's.
RawSend ==
    /\ arrivals < MaxReqs
    /\ \E req \in RawRequests(FreshId) :
        mailbox' = Append(mailbox,
            [seq |-> arrivals + 1, src |-> 0, return_route |-> "raw", body |-> req])
    /\ arrivals' = arrivals + 1
    /\ UNCHANGED <<store, active, done, promise, live, sstore, faults, clientAddr,
                   pending, inbox, result, lastCall>>
    /\ UNCHANGED <<outletVars, responderVars>>

\* What create_node, get, list and delete return for a response: the decoded
\* body on Ok, None for get on NotFound, and otherwise error(): a Protocol error.
\* A Client whose every call by id, delete as well as get, takes NotFound for
\* an absent node.
DecodedNotFoundIsNone(req, res) ==
    IF res.status = "Ok" THEN [tag |-> "Ok", body |-> res.body]
    ELSE IF req.path # RootPath /\ res.status = "NotFound"
    THEN [tag |-> "OkNone", body |-> EmptyBody]
    ELSE [tag |-> "ErrProtocol", body |-> EmptyBody]

Decoded(req, res) ==
    IF res.status = "Ok" THEN [tag |-> "Ok", body |-> res.body]
    ELSE IF req.method = "Get" /\ req.path # RootPath /\ res.status = "NotFound"
    THEN [tag |-> "OkNone", body |-> EmptyBody]
    ELSE [tag |-> "ErrProtocol", body |-> EmptyBody]

\* send_and_receive returns with the next message of the Client's context.
ClientReceive(c) ==
    /\ pending[c] # <<>>
    /\ inbox[clientAddr[c]] # <<>>
    /\ result' = [result EXCEPT ![c] = Decoded(pending[c][1], Head(inbox[clientAddr[c]]).cbor)]
    /\ lastCall' = [lastCall EXCEPT ![c] = <<pending[c][1], Head(inbox[clientAddr[c]]).cbor>>]
    /\ inbox' = [inbox EXCEPT ![clientAddr[c]] = Tail(@)]
    /\ pending' = [pending EXCEPT ![c] = <<>>]
    /\ UNCHANGED <<store, mailbox, active, arrivals, done, promise, live, sstore,
                   faults, clientAddr>>
    /\ UNCHANGED <<outletVars, responderVars>>

\* ---------------------------------------------------------- outlet listener

\* The workers that may send to the outlet listener; a caller's message
\* carries the route back to it as its return route.
Callers == {"p1", "p2"}
ReturnRoute(caller) == <<caller>>

\* PortalMessage
PortalMessages == {"Ping", "Pong", "Disconnect", "Payload"}

\* AccessControl::is_authorized of the listener's configured access control.
Authorized(ac, caller) == caller \in ac

\* A router that delivers to the listener without consulting its access control.
ListenerAllowsAll(ac, caller) == TRUE

\* The inbound check of the listener's mailbox, made by the router before it
\* delivers a message.
ListenerAllows(ac, caller) == Authorized(ac, caller)

\* TcpRouterHandle::resolve_peer: whether the peer string resolves.
ResolvePeer(peer) == peer = "good"
PeerAddr(peer) == <<peer, 1>>

\* TcpPortalWorker::start_new_outlet: a session outlet worker on an address
\* that no session has, for the given peer, ping route and access control.
StartNewOutlet(sess, peer_addr, ping_route, ac, from, ping) ==
    [address |-> CHOOSE n \in 1..(Cardinality(sess) + 1) :
                     \A t \in sess : t.address # n,
     peer_addr |-> peer_addr, ping_route |-> ping_route, access_control |-> ac,
     from |-> from, ping |-> ping]

\* What an invocation leaves: its return value, whether it has called
\* resolve_peer, and the sessions started.
Handled(res, resolved, sess) ==
    [result |-> res, resolved |-> resolved, sessions |-> sess]

\* A handler that starts the session before it looks at the message.
OutletHandleSpawnFirst(msg, peer, ac, sess) ==
    LET started == sess \cup {StartNewOutlet(sess, PeerAddr(peer), msg.return_route,
                                             ac, msg.src, msg.seq)}
    IN  IF ~ResolvePeer(peer) THEN Handled("ErrResolve", TRUE, sess)
        ELSE IF msg.body # "Ping" THEN Handled("ErrProtocol", TRUE, started)
        ELSE Handled("Ok", TRUE, started)

\* A handler that serves one session only.
OutletHandleOneShot(msg, peer, ac, sess) ==
    IF msg.body # "Ping" THEN Handled("ErrProtocol", FALSE, sess)
    ELSE IF ~ResolvePeer(peer) THEN Handled("ErrResolve", TRUE, sess)
    ELSE IF sess # {} THEN Handled("Ok", TRUE, sess)
    ELSE Handled("Ok", TRUE,
             sess \cup {StartNewOutlet(sess, PeerAddr(peer), msg.return_route, ac,
                                       msg.src, msg.seq)})

\* TcpOutletListenWorker::handle_message.
OutletHandleMessage(msg, peer, ac, sess) ==
    IF msg.body # "Ping" THEN Handled("ErrProtocol", FALSE, sess)
    ELSE IF ~ResolvePeer(peer) THEN Handled("ErrResolve", TRUE, sess)
    ELSE Handled("Ok", TRUE,
             sess \cup {StartNewOutlet(sess, PeerAddr(peer), msg.return_route, ac,
                                       msg.src, msg.seq)})

\* A caller sends a portal message to the listener's address: the router
\* delivers it if the listener's inbound access control allows the caller, and
\* drops it otherwise (the caller's forward fails with AccessDenied).
OutletForward(caller, body) ==
    /\ lSent < MaxPortalMsgs
    /\ lSent' = lSent + 1
    /\ IF ListenerAllows(lAccess, caller)
       THEN /\ lMailbox' = Append(lMailbox,
                  [seq |-> lSent + 1, src |-> caller,
                   return_route |-> ReturnRoute(caller), body |-> body])
            /\ UNCHANGED lDenied
       ELSE /\ lDenied' = lDenied \cup {caller}
            /\ UNCHANGED lMailbox
    /\ UNCHANGED <<lPeer, lAccess, sessions, lResult, lHandled, lResolves, lProtoErr,
                   lPings>>
    /\ UNCHANGED <<nodeVars, responderVars>>

\* The listener's relay gives the head of the mailbox to handle_message; the
\* worker goes on with the next message whatever the handler returns.
OutletHandle ==
    /\ lMailbox # <<>>
    /\ LET h == OutletHandleMessage(Head(lMailbox), lPeer, lAccess, sessions)
       IN  /\ sessions' = h.sessions
           /\ lResult' = h.result
           /\ lResolves' = lResolves + (IF h.resolved THEN 1 ELSE 0)
           /\ lProtoErr' = (lProtoErr \/ h.result = "ErrProtocol")
    /\ lPings' = IF Head(lMailbox).body = "Ping"
                 THEN lPings \cup {[seq |-> Head(lMailbox).seq, src |-> Head(lMailbox).src]}
                 ELSE lPings
    /\ lMailbox' = Tail(lMailbox)
    /\ lHandled' = lHandled + 1
    /\ UNCHANGED <<lPeer, lAccess, lDenied, lSent>>
    /\ UNCHANGED <<nodeVars, responderVars>>

\* --------------------------------------------------------------- responder

\* Transport types.
TCP == "TCP"
LOCAL_TYPE == "LOCAL"

\* Who may send to "echoer": a peer behind an accepted TCP connection, and a
\* worker of the node itself. Each message carries its return route, whose
\* first address is of the transport the message arrived by.
Senders == {[via |-> TCP, name |-> "peer"], [via |-> LOCAL_TYPE, name |-> "worker"]}

\* An echoer that takes messages of every transport.
EchoerIncomingAny == {TCP, LOCAL_TYPE}

\* Mailboxes::main("echoer", AllowFromTransport::single(TCP),
\*                 AllowToTransport::single(TCP))
EchoerAddress == "echoer"
EchoerIncoming == {TCP}
EchoerOutgoing == {TCP}

\* AllowFromTransport: the message arrived by one of the allowed transports.
AllowFromTransport(allowed, msg) == msg.via \in allowed

\* AllowToTransport: the message leaves by one of the allowed transports.
AllowToTransport(allowed, dest) == dest.via \in allowed

Registered(addr) == \E w \in workers : w.address = addr

\* Router forward of a message to "echoer": AddressUnreachable without a
\* worker on the address, AccessDenied (and the message dropped) when the
\* worker's inbound access control refuses it, delivery otherwise.
ForwardOutcome(ws, msg) ==
    IF ~\E w \in ws : w.address = EchoerAddress THEN "AddressUnreachable"
    ELSE IF \E w \in ws : w.address = EchoerAddress /\ AllowFromTransport(w.incoming, msg)
    THEN "Ok"
    ELSE "AccessDenied"

\* TcpTransport::create
MainCreateTransport ==
    /\ mainPc = "create"
    /\ mainPc' = "listen"
    /\ UNCHANGED <<workers, echoMailbox, fwdLog, handled, replied>>
    /\ UNCHANGED <<nodeVars, outletVars>>

\* tcp.listen(..): from here on TCP connections are accepted.
MainListen ==
    /\ mainPc = "listen"
    /\ mainPc' = "start"
    /\ UNCHANGED <<workers, echoMailbox, fwdLog, handled, replied>>
    /\ UNCHANGED <<nodeVars, outletVars>>

Listening == mainPc \in {"start", "done"}

\* WorkerBuilder::with_mailboxes(..).start(&ctx): the echoer is registered.
MainStartEchoer ==
    /\ mainPc = "start"
    /\ mainPc' = "done"
    /\ workers' = workers \cup
         {[address |-> EchoerAddress, incoming |-> EchoerIncoming,
           outgoing |-> EchoerOutgoing]}
    /\ UNCHANGED <<echoMailbox, fwdLog, handled, replied>>
    /\ UNCHANGED <<nodeVars, outletVars>>

\* A message for "echoer" is forwarded on the node: one that an accepted TCP
\* connection brought in, or one of a worker of the node.
Forward(sender) ==
    /\ Cardinality(fwdLog) < MaxEchoMsgs
    /\ sender.via = TCP => Listening
    /\ LET msg == [n |-> Cardinality(fwdLog) + 1, via |-> sender.via, from |-> sender]
           out == ForwardOutcome(workers, msg)
       IN  /\ fwdLog' = fwdLog \cup
                 {[n |-> msg.n, via |-> msg.via, reg |-> Registered(EchoerAddress),
                   outcome |-> out]}
           /\ echoMailbox' = IF out = "Ok" THEN Append(echoMailbox, msg) ELSE echoMailbox
    /\ UNCHANGED <<mainPc, workers, handled, replied>>
    /\ UNCHANGED <<nodeVars, outletVars>>

\* Echoer::handle_message: the body is sent back on the return route, if the
\* echoer's outbound access control allows the destination.
EchoerHandle ==
    /\ echoMailbox # <<>>
    /\ LET msg == Head(echoMailbox)
       IN  /\ handled' = handled \cup {msg.n}
           /\ replied' = IF \E w \in workers : /\ w.address = EchoerAddress
                                               /\ AllowToTransport(w.outgoing, msg.from)
                         THEN replied \cup {msg.n}
                         ELSE replied
    /\ echoMailbox' = Tail(echoMailbox)
    /\ UNCHANGED <<mainPc, workers, fwdLog>>
    /\ UNCHANGED <<nodeVars, outletVars>>

\* --------------------------------------------------------- specifications

\* Server::new (an empty map) and Client::new for each Client: a detached
\* context on an address of its own (registering an address in use fails).
InitNodes ==
    /\ store = <<>>
    /\ mailbox = <<>>
    /\ active = {}
    /\ arrivals = 0
    /\ done = 0
    /\ promise = [i \in Ids |-> "none"]
    /\ live = {}
    /\ sstore = <<>>
    /\ clientAddr = [c \in Clients |-> IF c = 1 THEN "a1" ELSE "a2"]
    /\ pending = [c \in Clients |-> <<>>]
    /\ inbox = [a \in ClientAddrs |-> <<>>]
    /\ result = [c \in Clients |-> NoResult]
    /\ lastCall = [c \in Clients |-> <<>>]

\* TcpOutletListenWorker::new(peer, access_control), with nothing received.
InitOutlet(peers, acs) ==
    /\ lPeer \in peers
    /\ lAccess \in acs
    /\ lMailbox = <<>>
    /\ sessions = {}
    /\ lResult = "none"
    /\ lHandled = 0
    /\ lResolves = 0
    /\ lProtoErr = FALSE
    /\ lPings = {}
    /\ lDenied = {}
    /\ lSent = 0

\* The responder node as main begins.
InitResponder ==
    /\ mainPc = "create"
    /\ workers = {}
    /\ echoMailbox = <<>>
    /\ fwdLog = {}
    /\ handled = {}
    /\ replied = {}

Init == InitNodes /\ faults = FALSE /\ InitOutlet({"good"}, {{}}) /\ InitResponder

InitFault == InitNodes /\ faults \in BOOLEAN /\ InitOutlet({"good"}, {{}}) /\ InitResponder

Next ==
    \/ ServerBegin
    \/ ServerReturn
    \/ RawSend
    \/ \E c \in Clients : CreateNodeCall(c)
    \/ \E c \in Clients : GetCall(c)
    \/ \E c \in Clients : ListCall(c)
    \/ \E c \in Clients : DeleteCall(c)
    \/ \E c \in Clients : ClientReceive(c)

\* The Server and its Clients; encoding a response never fails.
Spec == Init /\ [][Next]_vars

\* The same, with behaviours in which encoding a response may fail.
SpecFault == InitFault /\ [][Next]_vars

\* The outlet listener, for every configured peer and access control.
InitOutletSpec ==
    /\ InitNodes /\ faults = FALSE
    /\ InitOutlet({"good", "bad"}, SUBSET Callers)
    /\ InitResponder

NextOutlet ==
    \/ \E caller \in Callers, body \in PortalMessages : OutletForward(caller, body)
    \/ OutletHandle

SpecOutlet == InitOutletSpec /\ [][NextOutlet]_vars

\* The responder node.
NextResponder ==
    \/ MainCreateTransport
    \/ MainListen
    \/ MainStartEchoer
    \/ \E sender \in Senders : Forward(sender)
    \/ EchoerHandle

SpecResponder == Init /\ [][NextResponder]_vars

\* ------------------------------------------------- claims: the node Server

\* The id a request of one path segment names, "" when it names none.
PathId(req) ==
    LET segs == PathSegments2(req.path)
    IN  IF Len(segs) = 1 /\ Len(segs[1]) = 1 THEN segs[1][1] ELSE ""

\* C1: if a POST with body name n was answered Ok with generated id i, every
\* later GET /i is answered Ok with the node of id i and name n, until a
\* DELETE /i is answered Ok; after that DELETE, GET /i is answered NotFound.
C1_CreatedNodeIsServed ==
    \A a \in active :
        (a.req.hdr /\ a.req.method = "Get" /\ PathId(a.req) \in Ids) =>
            LET i == PathId(a.req)
            IN  /\ promise[i] \in Names =>
                      /\ a.ok
                      /\ a.cbor.status = "Ok"
                      /\ a.cbor.body = NodeBody(NodeInfo(i, promise[i]))
                /\ promise[i] = "deleted" => a.ok /\ a.cbor.status = "NotFound"

\* The status the claim C2 gives for a decoded request, on the store as it
\* is when the request is taken from the mailbox.
ClaimedStatus(st, req) ==
    LET n == Len(PathSegments2(req.path))
    IN  IF req.method = "Get"
        THEN IF n > 1 THEN "BadRequest"
             ELSE IF req.path = RootPath THEN "Ok"
             ELSE IF PathId(req) \in DOMAIN st THEN "Ok" ELSE "NotFound"
        ELSE IF req.method = "Post"
        THEN IF HasBody(req) THEN "Ok" ELSE "BadRequest"
        ELSE IF req.method = "Delete"
        THEN IF n > 1 THEN "BadRequest"
             ELSE IF PathId(req) \in DOMAIN st THEN "Ok" ELSE "NotFound"
        ELSE IF req.method = "Unknown" THEN "NotImplemented"
        ELSE "MethodNotAllowed"

\* C2 as stated: every request the Server decodes is answered, with the
\* status that its method, path and body give it.
C2_EveryDecodedRequestAnswered ==
    \A a \in active :
        a.req.hdr => a.ok /\ a.cbor.status = ClaimedStatus(sstore, a.req)

\* C2 as amended: a decoded request is answered with the status that its
\* method, path and body give it, except for a POST whose body does not
\* decode as CreateNode, which gets no response: the handler returns the error.
C2_DecodedRequestStatus ==
    \A a \in active :
        a.req.hdr =>
            IF a.req.method = "Post" /\ a.req.body.kind = "garbage"
            THEN ~a.ok
            ELSE a.ok /\ a.cbor.status = ClaimedStatus(sstore, a.req)

\* A POST with a body that is no CreateNode has been handled.
C2_Witness ==
    \E a \in active : a.req.hdr /\ a.req.method = "Post" /\ a.req.body.kind = "garbage"

\* C7: a response is delivered to the Client that issued the request it
\* answers, and to no other Client.
C7_ResponseReachesItsClient ==
    \A c \in Clients :
        \A k \in 1..Len(inbox[clientAddr[c]]) :
            LET m == inbox[clientAddr[c]][k]
            IN  /\ m.src = c
                /\ pending[c] # <<>>
                /\ m.cbor.re = pending[c][1].id

\* A Client holds its response while another Client waits for its own.
C7_Witness ==
    \E c, d \in Clients :
        c # d /\ inbox[clientAddr[c]] # <<>> /\ pending[d] # <<>>

\* C8: one handle_message invocation at a time, taken in mailbox order, and
\* each invocation's outcome is the outcome of on_request on the store that
\* the invocations returned before it leave behind.
C8_OneAtATime ==
    /\ Cardinality(active) <= 1
    /\ \A a \in active :
        LET r == OnRequest(sstore, a.req, a.rid, a.enc)
        IN  a.seq = done + 1 /\ r.ok = a.ok /\ r.res = a.cbor /\ r.store = store
    /\ active = {} => store = sstore
    /\ \A k \in 1..Len(mailbox) : mailbox[k].seq = done + Cardinality(active) + k

\* A request of one Client is being handled while a request of another
\* Client waits in the mailbox.
C8_Witness ==
    \E a \in active :
        /\ a.src \in Clients
        /\ mailbox # <<>>
        /\ Head(mailbox).src \in Clients \ {a.src}

\* C9: the store is changed only by a POST with a body, which adds one entry,
\* and by a DELETE of a stored id, which removes exactly that entry.
C9_StoreChangesOnlyOnPostAndDelete ==
    \A a \in active :
        IF a.ok /\ a.req.method = "Post" /\ HasBody(a.req)
        THEN /\ Cardinality(DOMAIN store) = Cardinality(DOMAIN sstore) + 1
             /\ \A k \in DOMAIN sstore : k \in DOMAIN store /\ store[k] = sstore[k]
        ELSE IF a.ok /\ a.req.method = "Delete" /\ PathId(a.req) \in DOMAIN sstore
        THEN store = Remove(sstore, PathId(a.req))
        ELSE store = sstore

\* C10: when on_request fails, no response is sent and the store is left as
\* it was.
C10_FailedRequestLeavesStore ==
    \A a \in active : ~a.ok => a.cbor = NoResponse /\ store = sstore

\* --------------------------------------------- claims: the outlet listener

\* C3: an invocation for a message that is not Ping returns Err(Protocol)
\* without resolving the peer and without starting a session; and once that
\* has happened, an invocation for a Ping (the peer resolving) still starts
\* a session, for that Ping.
C3_NonPingIsProtocolError ==
    [][lHandled' = lHandled + 1 =>
          LET msg == Head(lMailbox)
          IN  /\ msg.body # "Ping" =>
                    /\ lResult' = "ErrProtocol"
                    /\ lResolves' = lResolves
                    /\ sessions' = sessions
              /\ (msg.body = "Ping" /\ lProtoErr /\ ResolvePeer(lPeer)) =>
                    /\ lResult' = "Ok"
                    /\ \E s \in sessions' \ sessions : s.ping = msg.seq]_vars

\* A session has been started by a Ping handled after a protocol error.
C3_Witness == lProtoErr /\ lResult = "Ok" /\ sessions # {}

\* C4: with the peer resolving, every Ping handled has started exactly one
\* session, wired to the return route of the caller that sent that Ping; no
\* two sessions share an address, and there are as many sessions as Pings
\* handled.
C4_OneSessionPerPing ==
    /\ \A s, t \in sessions : s.address = t.address => s = t
    /\ \A s \in sessions : [seq |-> s.ping, src |-> s.from] \in lPings
    /\ ResolvePeer(lPeer) =>
           /\ \A p \in lPings :
                  \E s \in sessions :
                      /\ s.ping = p.seq
                      /\ s.ping_route = ReturnRoute(p.src)
                      /\ s.peer_addr = PeerAddr(lPeer)
           /\ Cardinality(sessions) = Cardinality(lPings)

\* Two callers have each a session of their own.
C4_Witness ==
    \E s, t \in sessions : s.from # t.from /\ s.address # t.address

C6_OnlyTcpReachesEchoer ==
    /\ \A w \in workers :
           w.address = EchoerAddress => w.incoming = {TCP} /\ w.outgoing = {TCP}
    /\ \A f \in fwdLog :
           f.via # TCP =>
               /\ f.n \notin handled
               /\ f.n \notin replied
               /\ f.reg => f.outcome = "AccessDenied"

\* A worker of the node was refused, and a message that came by TCP was
\* handled and answered.
C6_Witness ==
    /\ \E f \in fwdLog : f.via # TCP /\ f.reg /\ f.outcome = "AccessDenied"
    /\ \E f \in fwdLog : f.via = TCP /\ f.n \in handled /\ f.n \in replied

\* ------------------------------------------- claims: the node Server, continued

\* C11: GET / is answered Ok with a list of exactly the nodes that a POST
\* answered Ok has created and that no later DELETE answered Ok has removed.
C11_ListIsTheLiveNodes ==
    \A a \in active :
        (a.req.hdr /\ a.req.method = "Get" /\ a.req.path = RootPath) =>
            /\ a.ok
            /\ a.cbor.status = "Ok"
            /\ a.cbor.body = ListBody(live)

\* C12: Client::get returns Ok(None) for the answer NotFound and the decoded
\* node for the answer Ok; Client::delete returns Ok only for the answer Ok and
\* a Protocol error otherwise.  A DELETE of an id that is not stored (deleted
\* before, or never created) is answered NotFound, so the second delete of an
\* id fails with the error while the first, of a stored id, is answered Ok and
\* removes it; a GET of an id that is not stored is answered NotFound, so get
\* after delete returns Ok(None).
C12_GetAndDeleteResults ==
    /\ \A c \in Clients :
          lastCall[c] # <<>> =>
              LET req == lastCall[c][1]
                  res == lastCall[c][2]
              IN  /\ (req.method = "Get" /\ req.path # RootPath) =>
                        /\ res.status = "NotFound" => result[c].tag = "OkNone"
                        /\ res.status = "Ok" =>
                              /\ result[c].tag = "Ok"
                              /\ result[c].body = res.body
                              /\ result[c].body.kind = "node"
                  /\ req.method = "Delete" =>
                        /\ result[c].tag = "Ok" <=> res.status = "Ok"
                        /\ res.status # "Ok" => result[c].tag = "ErrProtocol"
    /\ \A a \in active :
          (a.src \in Clients /\ a.req.method \in {"Get", "Delete"}
             /\ a.req.path # RootPath) =>
              /\ a.ok
              /\ PathId(a.req) \notin DOMAIN sstore => a.cbor.status = "NotFound"
              /\ (PathId(a.req) \in DOMAIN sstore) => a.cbor.status = "Ok"
              /\ a.req.method = "Delete" => PathId(a.req) \notin DOMAIN store

\* A Client's delete of an id has returned the Protocol error for the answer
\* NotFound, after a DELETE of that id was answered Ok.
C12_Witness ==
    \E c \in Clients, i \in Ids :
        /\ lastCall[c] # <<>>
        /\ lastCall[c][1].method = "Delete"
        /\ PathId(lastCall[c][1]) = i
        /\ lastCall[c][2].status = "NotFound"
        /\ result[c].tag = "ErrProtocol"
        /\ promise[i] = "deleted"

\* C13: the Server creates a node only for a POST addressed to the path "/":
\* a POST with a body to any other path leaves the store as it was.
C13_PostCreatesOnlyAtRoot ==
    \A a \in active :
        (a.req.hdr /\ a.req.method = "Post" /\ HasBody(a.req)
           /\ a.req.path # RootPath) =>
            store = sstore

\* C14: a POST answered Ok keeps every node stored before it under the same id
\* with the same name, and the store grows by exactly one node, whichever id
\* the generator returns.
C14_PostKeepsEarlierNodes ==
    \A a \in active :
        (a.ok /\ a.req.hdr /\ a.req.method = "Post" /\ a.cbor.status = "Ok") =>
            /\ \A k \in DOMAIN sstore :
                  /\ k \in DOMAIN store
                  /\ store[k].name = sstore[k].name
                  /\ store[k] = sstore[k]
            /\ Cardinality(DOMAIN store) = Cardinality(DOMAIN sstore) + 1

\* C15: every key of the node store is the id of the node stored under it, and
\* the node of a POST answered Ok is stored under the id of the response.
C15_KeyIsNodeId ==
    /\ \A k \in DOMAIN store : store[k].id = k
    /\ \A a \in active :
          (a.ok /\ a.req.method = "Post" /\ a.cbor.status = "Ok") =>
              /\ a.cbor.body.node.id \in DOMAIN store
              /\ store[a.cbor.body.node.id] = a.cbor.body.node

\* A POST has just been answered Ok and the store holds two nodes.
C15_Witness ==
    /\ Cardinality(DOMAIN store) = 2
    /\ \E a \in active : a.ok /\ a.req.method = "Post" /\ a.cbor.status = "Ok"

\* C16: every response the Server sends carries, as re, the id of the request
\* it answers, whatever the status, and a Client's call decodes a response
\* that refers to the request of that call.
C16_ResponseRefersToRequest ==
    /\ \A a \in active : a.ok => a.cbor.re = a.req.id
    /\ \A c \in Clients : lastCall[c] # <<>> => lastCall[c][2].re = lastCall[c][1].id

\* A request that is not the first one is being answered NotFound, while a
\* Client holds the Ok answer to an earlier request of its own.
C16_Witness ==
    /\ \E a \in active : a.ok /\ a.req.id > 1 /\ a.cbor.status = "NotFound"
    /\ \E c \in Clients : lastCall[c] # <<>> /\ lastCall[c][2].status = "Ok"

\* -------------------------------------------- claims: the responder, continued

\* C17: the echoer address is registered whenever the TCP listener accepts
\* connections, so every message for the echoer that arrived over TCP found a
\* registered worker.
C17_EchoerRegisteredBeforeListen ==
    /\ Listening => Registered(EchoerAddress)
    /\ \A f \in fwdLog :
          f.via = TCP => f.reg /\ f.outcome # "AddressUnreachable"

====
